---- MODULE Spec2Model ----
(***************************************************************************)
(* Model of the notebook-to-text pipeline of mcp-notebook (src/main.py,    *)
(* src/manual.py): format_outputs / format_cell render the cells of a      *)
(* notebook into text blocks, three filters narrow the block list, and     *)
(* read_notebook drives load -> filters -> join inside one try/except.     *)
(*                                                                         *)
(* Python strings are modelled as sequences of one-character strings, so   *)
(* that strip, lower, split, splitlines, startswith, "in", int() and the   *)
(* f-string formatting are computed character by character as Python      *)
(* computes them.                                                          *)
(***************************************************************************)
EXTENDS Integers, Sequences, FiniteSets, TLC

VARIABLES
    pc,        \* position of the running call
    cell,      \* the cell given to format_outputs / format_cell
    index,     \* the index given to format_cell
    outs,      \* what format_outputs returned
    rendered,  \* what format_cell returned
    blocks,    \* the block list: a filter's input, read_notebook's local `blocks`
    fname,     \* the filter applied
    fargs,     \* its arguments
    out1,      \* the filter applied once
    out2,      \* the filter applied to its own result
    file,      \* what nbformat.read finds at `path`
    request,   \* read_notebook's optional arguments
    exc,       \* the exception in flight inside read_notebook's try block
    result     \* what read_notebook returned

vars == <<pc, cell, index, outs, rendered, blocks, fname, fargs, out1, out2,
          file, request, exc, result>>

(***************************************************************************)
(* Bounds of the model.                                                    *)
(***************************************************************************)
MaxCells   == 2
MaxFrags   == 2
MaxOutputs == 2

(***************************************************************************)
(* Python str primitives over character sequences.                         *)
(***************************************************************************)
NL == "\n"

\* str.strip() and int() strip these (the whitespace of the model's alphabet).
Whitespace == {" ", "\n", "\t", "\r"}

\* str.splitlines() breaks on these ("\r\n" counts as one break).
LineBreaks == {"\n", "\r"}

UpperLetters == <<"A", "B", "C", "D", "E", "F", "G", "H", "I", "J", "K", "L", "M",
                  "N", "O", "P", "Q", "R", "S", "T", "U", "V", "W", "X", "Y", "Z">>
LowerLetters == <<"a", "b", "c", "d", "e", "f", "g", "h", "i", "j", "k", "l", "m",
                  "n", "o", "p", "q", "r", "s", "t", "u", "v", "w", "x", "y", "z">>
Digits == <<"0", "1", "2", "3", "4", "5", "6", "7", "8", "9">>

SetMin(S) == CHOOSE x \in S : \A y \in S : x <= y

\* s[i:] with a 1-based i
From(s, i) == SubSeq(s, i, Len(s))

LowerChar(c) ==
    IF \E i \in 1..26 : UpperLetters[i] = c
    THEN LowerLetters[CHOOSE i \in 1..26 : UpperLetters[i] = c]
    ELSE c

\* str.lower()
Lower(s) == [i \in 1..Len(s) |-> LowerChar(s[i])]

\* str.lstrip(), str.rstrip(), str.strip()
RECURSIVE LStrip(_)
LStrip(s) == IF s # <<>> /\ s[1] \in Whitespace THEN LStrip(Tail(s)) ELSE s

RECURSIVE RStrip(_)
RStrip(s) ==
    IF s # <<>> /\ s[Len(s)] \in Whitespace
    THEN RStrip(SubSeq(s, 1, Len(s) - 1)) ELSE s

Strip(s) == RStrip(LStrip(s))

\* str.startswith(p)
StartsWith(s, p) == Len(p) <= Len(s) /\ SubSeq(s, 1, Len(p)) = p

\* the 1-based positions at which p occurs in s
Occurrences(s, p) ==
    {i \in 1..(Len(s) - Len(p) + 1) : SubSeq(s, i, i + Len(p) - 1) = p}

\* p in s
Contains(s, p) == Len(p) = 0 \/ Occurrences(s, p) # {}

\* s.split(sep, 1)[0]
SplitFirst(s, sep) ==
    IF Occurrences(s, sep) = {} THEN s
    ELSE SubSeq(s, 1, SetMin(Occurrences(s, sep)) - 1)

\* s.split(sep) for a non-empty sep
RECURSIVE Split(_, _)
Split(s, sep) ==
    IF Occurrences(s, sep) = {} THEN <<s>>
    ELSE LET i == SetMin(Occurrences(s, sep))
         IN  <<SubSeq(s, 1, i - 1)>> \o Split(From(s, i + Len(sep)), sep)

\* str.splitlines()
RECURSIVE SplitLines(_)
SplitLines(s) ==
    IF s = <<>> THEN <<>>
    ELSE LET brk == {i \in 1..Len(s) : s[i] \in LineBreaks}
         IN  IF brk = {} THEN <<s>>
             ELSE LET i    == SetMin(brk)
                      skip == IF s[i] = "\r" /\ i < Len(s) /\ s[i + 1] = "\n"
                              THEN 2 ELSE 1
                  IN  <<SubSeq(s, 1, i - 1)>> \o SplitLines(From(s, i + skip))

\* sep.join(parts)
RECURSIVE Join(_, _)
Join(sep, parts) ==
    IF parts = <<>> THEN <<>>
    ELSE IF Len(parts) = 1 THEN parts[1]
    ELSE parts[1] \o sep \o Join(sep, Tail(parts))

\* "".join(parts)
RECURSIVE ConcatAll(_)
ConcatAll(parts) ==
    IF parts = <<>> THEN <<>> ELSE parts[1] \o ConcatAll(Tail(parts))

\* str(n) / f"{n}" for an int
RECURSIVE NatToStr(_)
NatToStr(n) ==
    IF n < 10 THEN <<Digits[n + 1]>>
    ELSE NatToStr(n \div 10) \o <<Digits[(n % 10) + 1]>>

IntToStr(n) == IF n < 0 THEN <<"-">> \o NatToStr(0 - n) ELSE NatToStr(n)

DigitValue(c) == (CHOOSE i \in 1..10 : Digits[i] = c) - 1

IsDigit(c) == \E i \in 1..10 : Digits[i] = c

RECURSIVE DigitsValue(_)
DigitsValue(s) ==
    IF s = <<>> THEN 0
    ELSE 10 * DigitsValue(SubSeq(s, 1, Len(s) - 1)) + DigitValue(s[Len(s)])

\* int(s): surrounding whitespace is stripped, one optional sign, then
\* decimal digits, with single underscores allowed between two digits
\* ("1_0" is 10; "_1", "1_" and "1__0" are not literals); anything else
\* raises ValueError (ok = FALSE).
ParseInt(s) ==
    LET t      == Strip(s)
        neg    == t # <<>> /\ t[1] = "-"
        body   == IF t # <<>> /\ t[1] \in {"-", "+"} THEN Tail(t) ELSE t
        digits == SelectSeq(body, IsDigit)
        ok     == /\ body # <<>>
                  /\ \A i \in 1..Len(body) :
                         \/ IsDigit(body[i])
                         \/ /\ body[i] = "_"
                            /\ 1 < i /\ i < Len(body)
                            /\ IsDigit(body[i - 1]) /\ IsDigit(body[i + 1])
    IN  [ok  |-> ok,
         val |-> IF ok THEN (IF neg THEN 0 - DigitsValue(digits) ELSE DigitsValue(digits))
                 ELSE 0]

\* repr(s) of a str, as f"{s!r}" and the ValueError message of int() print it
ReprChar(c, quote) ==
    IF c = "\n" THEN <<"\\", "n">>
    ELSE IF c = "\t" THEN <<"\\", "t">>
    ELSE IF c = "\r" THEN <<"\\", "r">>
    ELSE IF c = "\\" THEN <<"\\", "\\">>
    ELSE IF c = quote THEN <<"\\", c>>
    ELSE <<c>>

Repr(s) ==
    LET has(c) == \E i \in 1..Len(s) : s[i] = c
        quote  == IF has("'") /\ ~has("\"") THEN "\"" ELSE "'"
    IN  <<quote>> \o ConcatAll([i \in 1..Len(s) |-> ReprChar(s[i], quote)]) \o <<quote>>

(***************************************************************************)
(* Literals of the rendered-block grammar and of the tool's responses.     *)
(***************************************************************************)
CellTag        == <<"[", "C", "E", "L", "L">>
CellOpen       == <<"[", "C", "E", "L", "L", " ">>
MarkdownClose  == <<" ", "|", " ", "M", "A", "R", "K", "D", "O", "W", "N", "]">>
CodeClose      == <<" ", "|", " ", "C", "O", "D", "E", "]">>
ExecCountTag   == <<"[", "E", "X", "E", "C", "U", "T", "I", "O", "N", "_",
                    "C", "O", "U", "N", "T", "]">>
HasErrorTag    == <<"[", "H", "A", "S", "_", "E", "R", "R", "O", "R", "]">>
OutputTag      == <<"[", "O", "U", "T", "P", "U", "T", "]">>
NoOutput       == <<"<", "N", "O", " ", "O", "U", "T", "P", "U", "T", ">">>
ErrorLine      == <<"E", "R", "R", "O", "R", ":">>
ColonSpace     == <<":", " ">>
StrTrue        == <<"T", "r", "u", "e">>
StrFalse       == <<"F", "a", "l", "s", "e">>
StrNone        == <<"N", "o", "n", "e">>
LowerTrue      == <<"t", "r", "u", "e">>
Bar            == <<"|">>
CloseBracket   == <<"]">>
NoMatchMessage ==
    <<"N", "o", " ", "m", "a", "t", "c", "h", "i", "n", "g", " ", "c", "e", "l",
      "l", "s", " ", "f", "o", "u", "n", "d", " ", "w", "i", "t", "h", " ", "t",
      "h", "e", " ", "s", "p", "e", "c", "i", "f", "i", "e", "d", " ", "f", "i",
      "l", "t", "e", "r", "s", ".">>
ErrorPrefix    ==
    <<"E", "r", "r", "o", "r", " ", "r", "e", "a", "d", "i", "n", "g", " ", "n",
      "o", "t", "e", "b", "o", "o", "k", ":", " ">>
IntLiteralMsg  ==
    <<"i", "n", "v", "a", "l", "i", "d", " ", "l", "i", "t", "e", "r", "a", "l",
      " ", "f", "o", "r", " ", "i", "n", "t", "(", ")", " ", "w", "i", "t", "h",
      " ", "b", "a", "s", "e", " ", "1", "0", ":", " ">>
NoLowerMsg     ==
    <<"'", "i", "n", "t", "'", " ", "o", "b", "j", "e", "c", "t", " ", "h", "a",
      "s", " ", "n", "o", " ", "a", "t", "t", "r", "i", "b", "u", "t", "e", " ",
      "'", "l", "o", "w", "e", "r", "'">>

(***************************************************************************)
(* Python values.  A value that may be None, a str or a list is a record   *)
(* [kind, v]; an exception is a record [type, msg].                        *)
(***************************************************************************)
None      == [kind |-> "none", v |-> <<>>]
PyStr(s)  == [kind |-> "str",  v |-> s]
PyList(l) == [kind |-> "list", v |-> l]
PyInt(n)  == [kind |-> "int",  v |-> n]
PyBool(b) == [kind |-> "bool", v |-> b]

NoExc == [type |-> "", msg |-> <<>>]
Returned(value) == [raised |-> FALSE, value |-> value, exc |-> NoExc]
Raised(type, msg) ==
    [raised |-> TRUE, value |-> <<>>, exc |-> [type |-> type, msg |-> msg]]

(***************************************************************************)
(* Utilities: normalize_text, format_outputs, format_cell.                 *)
(***************************************************************************)
\* normalize_text(x): "".join(x) for a list, x or "" otherwise
normalize_text(x) ==
    IF x.kind = "list" THEN ConcatAll(x.v)
    ELSE IF x.kind = "str" THEN x.v
    ELSE <<>>

\* OutputLines with `lines.extend(out.traceback)` left out
OutputLinesNoTraceback(out) ==
    IF out.output_type = "stream"
    THEN LET text == Strip(normalize_text(out.text))
         IN  IF text # <<>> THEN <<text>> ELSE <<>>
    ELSE IF out.output_type \in {"execute_result", "display_data"}
    THEN LET data == IF out.data.kind = "none" THEN <<>> ELSE out.data.v
         IN  IF "text/plain" \in DOMAIN data
             THEN <<Strip(data["text/plain"])>>
             ELSE <<>>
    ELSE IF out.output_type = "error"
    THEN <<ErrorLine, out.ename \o ColonSpace \o out.evalue>>
    ELSE <<>>

\* the lines one output record appends to `lines`
OutputLines(out) ==
    IF out.output_type = "stream"
    THEN LET text == Strip(normalize_text(out.text))
         IN  IF text # <<>> THEN <<text>> ELSE <<>>
    ELSE IF out.output_type \in {"execute_result", "display_data"}
    THEN LET data == IF out.data.kind = "none" THEN <<>> ELSE out.data.v
         IN  IF "text/plain" \in DOMAIN data
             THEN <<Strip(data["text/plain"])>>
             ELSE <<>>
    ELSE IF out.output_type = "error"
    THEN <<ErrorLine, out.ename \o ColonSpace \o out.evalue>> \o out.traceback
    ELSE <<>>

RECURSIVE AllOutputLines(_)
AllOutputLines(outputs) ==
    IF outputs = <<>> THEN <<>>
    ELSE OutputLines(outputs[1]) \o AllOutputLines(Tail(outputs))

\* format_outputs(outputs) -> ("\n".join(lines), has_error)
format_outputs(outputs) ==
    [text      |-> Join(<<NL>>, AllOutputLines(outputs)),
     has_error |-> \E i \in 1..Len(outputs) : outputs[i].output_type = "error"]

\* f"{execution_count}"
FormatCount(c) == IF c.kind = "int" THEN IntToStr(c.v) ELSE StrNone

\* f"{has_error}"
FormatBool(b) == IF b THEN StrTrue ELSE StrFalse

\* format_cell(cell, index)
format_cell(c, i) ==
    LET source == Strip(normalize_text(c.source))
    IN  IF c.cell_type = "markdown"
        THEN <<NL>> \o CellOpen \o IntToStr(i) \o MarkdownClose \o <<NL>>
             \o source \o <<NL>>
        ELSE IF c.cell_type = "code"
        THEN LET o == format_outputs(c.outputs)
             IN  <<NL>> \o CellOpen \o IntToStr(i) \o CodeClose \o <<NL>>
                 \o ExecCountTag \o <<" ">> \o FormatCount(c.execution_count) \o <<NL>>
                 \o HasErrorTag \o <<" ">> \o FormatBool(o.has_error) \o <<NL, NL>>
                 \o source \o <<NL, NL>>
                 \o OutputTag \o <<NL>>
                 \o (IF o.text # <<>> THEN o.text ELSE NoOutput) \o <<NL>>
        ELSE <<>>

\* RenderCells without the `if block.strip()` test
RECURSIVE RenderCellsKeepAll(_, _)
RenderCellsKeepAll(cells, i) ==
    IF cells = <<>> THEN <<>>
    ELSE <<format_cell(cells[1], i)>> \o RenderCellsKeepAll(Tail(cells), i + 1)

\* the loop of notebook_to_llm_blocks over nb.cells (after a successful read)
RECURSIVE RenderCells(_, _)
RenderCells(cells, i) ==
    IF cells = <<>> THEN <<>>
    ELSE LET block == format_cell(cells[1], i)
         IN  (IF Strip(block) # <<>> THEN <<block>> ELSE <<>>)
             \o RenderCells(Tail(cells), i + 1)

\* notebook_to_llm_blocks(path): nbformat.read raises, or the cells are rendered
notebook_to_llm_blocks(f) ==
    IF f.readable THEN Returned(RenderCells(f.cells, 0))
    ELSE Raised(f.exc.type, f.exc.msg)

(***************************************************************************)
(* Filters.  Each returns Returned(list) or Raised(type, msg).             *)
(***************************************************************************)
\* AnyKeyword with `k in text` in place of `k.lower() in text`
RECURSIVE AnyKeywordCaseSensitive(_, _)
AnyKeywordCaseSensitive(text, keywords) ==
    IF keywords = <<>> THEN "false"
    ELSE IF keywords[1].kind # "str" THEN "raise"
    ELSE IF Contains(text, keywords[1].v) THEN "true"
    ELSE AnyKeywordCaseSensitive(text, Tail(keywords))

\* any(k.lower() in text for k in keywords): keywords are tried in order, the
\* first match stops the scan, a non-str keyword reached before it raises
RECURSIVE AnyKeyword(_, _)
AnyKeyword(text, keywords) ==
    IF keywords = <<>> THEN "false"
    ELSE IF keywords[1].kind # "str" THEN "raise"
    ELSE IF Contains(text, Lower(keywords[1].v)) THEN "true"
    ELSE AnyKeyword(text, Tail(keywords))

\* filter_by_keyword(blocks, keywords)
filter_by_keyword(bs, keywords) ==
    LET kws     == IF keywords.kind = "str" THEN <<keywords>> ELSE keywords.v
        hit(i)  == AnyKeyword(Lower(bs[i]), kws)
    IN  IF \E i \in 1..Len(bs) : hit(i) = "raise"
        THEN Raised("AttributeError", NoLowerMsg)
        ELSE Returned(SelectSeq(bs, LAMBDA b : AnyKeyword(Lower(b), kws) = "true"))

\* the first line of a block, as filter_by_cell_index reads it
HeaderOf(block) == SplitFirst(block, <<NL>>)

\* header.split("[CELL")[1].split("|")[0].strip()
IndexText(header) == Strip(SplitFirst(Split(header, CellTag)[2], Bar))

\* one iteration of filter_by_cell_index: "skip", "keep" or "raise"
IndexVerdict(block, start, end) ==
    LET header == HeaderOf(block)
    IN  IF ~StartsWith(header, CellTag) THEN "skip"
        ELSE LET idx == ParseInt(IndexText(header))
             IN  IF ~idx.ok THEN "raise"
                 ELSE IF start.kind = "int" /\ idx.val < start.v THEN "skip"
                 ELSE IF end.kind = "int" /\ idx.val >= end.v THEN "skip"
                 ELSE "keep"

\* filter_by_cell_index with `result.insert(0, block)` in place of append
RECURSIVE Reversed(_)
Reversed(q) == IF q = <<>> THEN <<>> ELSE Append(Reversed(Tail(q)), q[1])

filter_by_cell_index_reversed(bs, start, end) ==
    LET bad == {i \in 1..Len(bs) : IndexVerdict(bs[i], start, end) = "raise"}
    IN  IF bad # {}
        THEN Raised("ValueError",
                    IntLiteralMsg \o Repr(IndexText(HeaderOf(bs[SetMin(bad)]))))
        ELSE Returned(Reversed(
                 SelectSeq(bs, LAMBDA b : IndexVerdict(b, start, end) = "keep")))

\* filter_by_cell_index comparing the block's position in the list, not the
\* index parsed from its header, with start and end
filter_by_cell_index_positional(bs, start, end) ==
    LET keep == {i \in 1..Len(bs) :
                    /\ ~(start.kind = "int" /\ i - 1 < start.v)
                    /\ ~(end.kind = "int" /\ i - 1 >= end.v)}
        pos  == SelectSeq([i \in 1..Len(bs) |-> i], LAMBDA i : i \in keep)
    IN  Returned([k \in 1..Len(pos) |-> bs[pos[k]]])

\* filter_by_cell_index(blocks, start, end)
filter_by_cell_index(bs, start, end) ==
    LET bad == {i \in 1..Len(bs) : IndexVerdict(bs[i], start, end) = "raise"}
    IN  IF bad # {}
        THEN Raised("ValueError",
                    IntLiteralMsg \o Repr(IndexText(HeaderOf(bs[SetMin(bad)]))))
        ELSE Returned(SelectSeq(bs, LAMBDA b : IndexVerdict(b, start, end) = "keep"))

\* one iteration of filter_has_error: the first line starting with the tag decides
ErrorVerdict(block, has_error) ==
    LET lines  == SplitLines(block)
        tagged == {i \in 1..Len(lines) : StartsWith(lines[i], HasErrorTag)}
    IN  IF tagged = {} THEN FALSE
        ELSE LET line == lines[SetMin(tagged)]
                 rest == From(line, SetMin(Occurrences(line, CloseBracket)) + 1)
                 flag == Lower(Strip(rest)) = LowerTrue
             IN  flag = has_error

\* filter_has_error(blocks, has_error)
filter_has_error(bs, has_error) ==
    Returned(SelectSeq(bs, LAMBDA b : ErrorVerdict(b, has_error)))

(***************************************************************************)
(* Inputs.                                                                 *)
(***************************************************************************)
RECURSIVE SeqsUpTo(_, _)
SeqsUpTo(S, n) ==
    IF n = 0 THEN {<<>>}
    ELSE LET shorter == SeqsUpTo(S, n - 1)
         IN  shorter \cup {Append(q, x) : q \in {r \in shorter : Len(r) = n - 1}, x \in S}

TxtFit      == <<"F", "i", "t">>
TxtSpace    == <<" ">>
TxtTagTrue  == <<"[", "H", "A", "S", "_", "E", "R", "R", "O", "R", "]", " ", "T", "r",
      "u", "e">>
TxtCall     == <<"f", "i", "t", "(", "x", ")">>
TxtRmse     == <<"R", "M", "S", "E", " ", "0", ".", "5", "\n">>
TxtAnswer   == <<" ", "4", "2", " ">>
TxtPng      == <<"i", "V", "B", "O", "R">>
TxtValueErr == <<"V", "a", "l", "u", "e", "E", "r", "r", "o", "r">>
TxtBad      == <<"b", "a", "d">>
TxtLine1    == <<"l", "i", "n", "e", "1">>
TxtLine2    == <<"l", "i", "n", "e", "2">>
KwRmse      == <<"r", "m", "s", "e">>
KwCell      == <<"C", "E", "L", "L", " ", "1", " ">>
KwAbsent    == <<"z", "z", "z">>
MsgMissing  ==
    <<"[", "E", "r", "r", "n", "o", " ", "2", "]", " ", "N", "o", " ", "s",
      "u", "c", "h", " ", "f", "i", "l", "e", " ", "o", "r", " ", "d",
      "i", "r", "e", "c", "t", "o", "r", "y", ":", " ", "'", "m", "i",
      "s", "s", "i", "n", "g", ".", "i", "p", "y", "n", "b", "'">>
MsgNotJson  ==
    <<"N", "o", "t", "e", "b", "o", "o", "k", " ", "d", "o", "e", "s", " ",
      "n", "o", "t", " ", "a", "p", "p", "e", "a", "r", " ", "t", "o",
      " ", "b", "e", " ", "J", "S", "O", "N", ":", " ", "'", "x", "'">>

Fragments == {TxtFit, TxtSpace, <<NL>>, TxtTagTrue}

\* cell.source: absent, one string, or a list of fragments
Sources ==
    {None, PyStr(<<>>)} \cup {PyStr(f) : f \in Fragments}
        \cup {PyList(l) : l \in SeqsUpTo(Fragments, MaxFrags)}

Output(type, text, data, ename, evalue, traceback) ==
    [output_type |-> type, text |-> text, data |-> data,
     ename |-> ename, evalue |-> evalue, traceback |-> traceback]

Dict(d) == [kind |-> "dict", v |-> d]

StreamOut      == Output("stream", PyStr(TxtRmse), None, <<>>, <<>>, <<>>)
BlankStreamOut == Output("stream", PyList(<<TxtSpace, <<NL>>>>), None, <<>>, <<>>, <<>>)
ResultOut      == Output("execute_result", None,
                         Dict([k \in {"text/plain"} |-> TxtAnswer]), <<>>, <<>>, <<>>)
ImageOut       == Output("display_data", None,
                         Dict([k \in {"image/png"} |-> TxtPng]), <<>>, <<>>, <<>>)
NoDataOut      == Output("display_data", None, None, <<>>, <<>>, <<>>)
ErrorOut       == Output("error", None, None, TxtValueErr, TxtBad,
                         <<TxtLine1, TxtLine2>>)
UnknownOut     == Output("future_output", PyStr(TxtRmse), None, <<>>, <<>>, <<>>)

OutputPool == {StreamOut, BlankStreamOut, ResultOut, ImageOut, NoDataOut,
               ErrorOut, UnknownOut}

Cell(type, source, count, outputs) ==
    [cell_type |-> type, source |-> source, execution_count |-> count,
     outputs |-> outputs]

CodeSources == {None, PyStr(TxtCall), PyList(<<TxtTagTrue, <<NL>>>>)}

\* the cells format_cell is applied to
Cells ==
    {Cell("markdown", src, None, <<>>) : src \in Sources}
        \cup {Cell("raw", PyStr(TxtFit), None, <<>>)}
        \cup {Cell("code", src, cnt, os) :
                 src \in CodeSources, cnt \in {None, PyInt(7)},
                 os \in SeqsUpTo(OutputPool, MaxOutputs)}

Indices == {0, 1, 12}

\* the cells of the notebooks read_notebook is called on
NotebookCells ==
    {Cell("markdown", PyStr(TxtFit), None, <<>>),
     Cell("markdown", PyStr(TxtSpace), None, <<>>),
     Cell("markdown", PyList(<<TxtTagTrue>>), None, <<>>),
     Cell("code", PyStr(TxtCall), PyInt(7), <<StreamOut>>),
     Cell("code", PyStr(TxtCall), None, <<ErrorOut>>),
     Cell("raw", PyStr(TxtFit), None, <<>>)}

Readable(cells) == [readable |-> TRUE, cells |-> cells, exc |-> NoExc]
Unreadable(type, msg) ==
    [readable |-> FALSE, cells |-> <<>>, exc |-> [type |-> type, msg |-> msg]]

\* what nbformat.read(path) finds: a notebook, no file, or a file that is not JSON
Files ==
    {Readable(cs) : cs \in SeqsUpTo(NotebookCells, MaxCells)}
        \cup {Unreadable("FileNotFoundError", MsgMissing),
              Unreadable("NotJSONError", MsgNotJson)}

OptionalInts(S) == {None} \cup {PyInt(n) : n \in S}
OptionalBools == {None, PyBool(TRUE), PyBool(FALSE)}

KeywordArgs ==
    {PyStr(KwRmse), PyList(<<PyStr(KwAbsent), PyStr(KwCell)>>),
     PyList(<<PyStr(KwRmse), PyInt(5)>>)}

\* read_notebook's optional arguments (keywords: Optional[List[str]], of
\* which Python checks nothing at run time)
Requests ==
    [keywords    : {None, PyList(<<>>),
                    PyList(<<PyStr(KwAbsent), PyStr(KwCell)>>),
                    PyList(<<PyStr(KwRmse), PyInt(5)>>)},
     start_cell  : OptionalInts({1}),
     end_cell    : OptionalInts({1, 2}),
     only_errors : OptionalBools]

\* block lists given to the filters directly: blocks as format_cell returns
\* them, the same blocks with the header on the first line, and blocks whose
\* header or flag is not what format_cell writes
HeaderFirst(b) == Tail(b)
BadIndexBlock  == <<"[", "C", "E", "L", "L", " ", "x", " ", "|", " ", "C", "O", "D", "E",
      "]", "\n", "[", "H", "A", "S", "_", "E", "R", "R", "O", "R", "]",
      " ", "T", "R", "U", "E", "\n">>
\* "[CELL 1_0 | CODE]\n[HAS_ERROR] True\n": int("1_0") is 10
UnderscoreBlock ==
    <<"[", "C", "E", "L", "L", " ", "1", "_", "0", " ", "|", " ", "C", "O",
      "D", "E", "]", "\n", "[", "H", "A", "S", "_", "E", "R", "R", "O", "R",
      "]", " ", "T", "r", "u", "e", "\n">>
NoHeaderBlock  == <<"n", "o", "t", "e", "s", "\r", "[", "H", "A", "S", "_", "E", "R", "R",
      "O", "R", "]", " ", "f", "a", "l", "s", "e", "\n">>

BlockPool ==
    {format_cell(Cell("markdown", PyStr(TxtFit), None, <<>>), 0),
     HeaderFirst(format_cell(Cell("markdown", PyStr(TxtFit), None, <<>>), 0)),
     HeaderFirst(format_cell(Cell("markdown", PyStr(TxtTagTrue), None, <<>>), 1)),
     HeaderFirst(format_cell(Cell("code", PyStr(TxtCall), PyInt(7), <<StreamOut>>), 1)),
     HeaderFirst(format_cell(Cell("code", PyStr(TxtCall), None, <<ErrorOut>>), 2)),
     HeaderFirst(format_cell(Cell("code", None, None, <<>>), 12)),
     BadIndexBlock,
     UnderscoreBlock,
     NoHeaderBlock}

BlockLists == SeqsUpTo(BlockPool, MaxCells)

Unset == [kind |-> "unset", v |-> <<>>]

(***************************************************************************)
(* read_notebook (src/main.py:110-145), one action per statement of its    *)
(* try block and one for its except clause.                                *)
(***************************************************************************)
\* bool(x) of an optional str or list argument
Truthy(x) == x.kind # "none" /\ x.v # <<>>

\* Response without the `if not blocks` test
ResponseJoinOnly(bs) == Join(<<NL>>, bs)

\* ErrorResponse without the "Error reading notebook: " prefix
ErrorResponseBare(e) == e.msg

\* "\n".join(blocks), or the sentinel when no block is left
Response(bs) == IF bs = <<>> THEN NoMatchMessage ELSE Join(<<NL>>, bs)

\* f"Error reading notebook: {str(e)}"
ErrorResponse(e) == ErrorPrefix \o e.msg

\* a statement `blocks = f(...)` inside the try block
Assign(r, next) ==
    IF r.raised
    THEN pc' = "except" /\ exc' = r.exc /\ UNCHANGED blocks
    ELSE pc' = next /\ blocks' = r.value /\ UNCHANGED exc

Others == <<cell, index, outs, rendered, fname, fargs, out1, out2>>

Load ==
    /\ pc = "call"
    /\ Assign(notebook_to_llm_blocks(file), "loaded")
    /\ UNCHANGED <<Others, file, request, result>>

KeywordStep ==
    /\ pc = "loaded"
    /\ IF Truthy(request.keywords)
       THEN Assign(filter_by_keyword(blocks, request.keywords), "keyword_done")
       ELSE pc' = "keyword_done" /\ UNCHANGED <<blocks, exc>>
    /\ UNCHANGED <<Others, file, request, result>>

IndexStep ==
    /\ pc = "keyword_done"
    /\ IF request.start_cell.kind # "none" \/ request.end_cell.kind # "none"
       THEN Assign(filter_by_cell_index(blocks, request.start_cell, request.end_cell),
                   "index_done")
       ELSE pc' = "index_done" /\ UNCHANGED <<blocks, exc>>
    /\ UNCHANGED <<Others, file, request, result>>

ErrorStep ==
    /\ pc = "index_done"
    /\ IF request.only_errors.kind # "none"
       THEN Assign(filter_has_error(blocks, request.only_errors.v), "error_done")
       ELSE pc' = "error_done" /\ UNCHANGED <<blocks, exc>>
    /\ UNCHANGED <<Others, file, request, result>>

Return ==
    /\ pc = "error_done"
    /\ result' = PyStr(Response(blocks))
    /\ pc' = "returned"
    /\ UNCHANGED <<Others, file, request, blocks, exc>>

Except ==
    /\ pc = "except"
    /\ result' = PyStr(ErrorResponse(exc))
    /\ pc' = "returned"
    /\ UNCHANGED <<Others, file, request, blocks, exc>>

Init ==
    /\ pc = "call"
    /\ file \in Files
    /\ request \in Requests
    /\ blocks = <<>>
    /\ exc = NoExc
    /\ result = Unset
    /\ cell = Unset /\ index = 0 /\ outs = Unset /\ rendered = Unset
    /\ fname = "" /\ fargs = <<>> /\ out1 = Unset /\ out2 = Unset

Next == Load \/ KeywordStep \/ IndexStep \/ ErrorStep \/ Return \/ Except

Spec == Init /\ [][Next]_vars

(***************************************************************************)
(* format_outputs and format_cell applied to one cell.                     *)
(***************************************************************************)
ApplyFormatOutputs ==
    /\ pc = "render"
    /\ cell.cell_type = "code"
    /\ outs = Unset
    /\ outs' = [kind |-> "outputs", v |-> format_outputs(cell.outputs)]
    /\ UNCHANGED <<pc, cell, index, rendered, blocks, fname, fargs, out1, out2,
                   file, request, exc, result>>

ApplyFormatCell ==
    /\ pc = "render"
    /\ rendered = Unset
    /\ rendered' = PyStr(format_cell(cell, index))
    /\ UNCHANGED <<pc, cell, index, outs, blocks, fname, fargs, out1, out2,
                   file, request, exc, result>>

InitRender ==
    /\ pc = "render"
    /\ cell \in Cells
    /\ index \in Indices
    /\ outs = Unset /\ rendered = Unset
    /\ blocks = <<>> /\ fname = "" /\ fargs = <<>> /\ out1 = Unset /\ out2 = Unset
    /\ file = Unset /\ request = Unset /\ exc = NoExc /\ result = Unset

NextRender == ApplyFormatOutputs \/ ApplyFormatCell

SpecRender == InitRender /\ [][NextRender]_vars

(***************************************************************************)
(* A filter applied to a block list, and again to its own result.          *)
(***************************************************************************)
FilterKeywordArgs == {PyList(<<>>), PyStr(<<>>)} \cup KeywordArgs
FilterStarts == OptionalInts({1, 2})
FilterEnds   == OptionalInts({2, 12, 13})

ApplyFilter(name, args, bs) ==
    IF name = "filter_by_keyword" THEN filter_by_keyword(bs, args[1])
    ELSE IF name = "filter_by_cell_index" THEN filter_by_cell_index(bs, args[1], args[2])
    ELSE filter_has_error(bs, args[1])

FilterUnchanged == <<cell, index, outs, rendered, blocks, file, request, exc, result>>

ApplyKeyword ==
    /\ pc = "filter"
    /\ \E kw \in FilterKeywordArgs :
          /\ fname' = "filter_by_keyword"
          /\ fargs' = <<kw>>
          /\ out1' = filter_by_keyword(blocks, kw)
    /\ pc' = "once"
    /\ UNCHANGED <<FilterUnchanged, out2>>

ApplyIndex ==
    /\ pc = "filter"
    /\ \E s \in FilterStarts, e \in FilterEnds :
          /\ fname' = "filter_by_cell_index"
          /\ fargs' = <<s, e>>
          /\ out1' = filter_by_cell_index(blocks, s, e)
    /\ pc' = "once"
    /\ UNCHANGED <<FilterUnchanged, out2>>

ApplyHasError ==
    /\ pc = "filter"
    /\ \E t \in BOOLEAN :
          /\ fname' = "filter_has_error"
          /\ fargs' = <<t>>
          /\ out1' = filter_has_error(blocks, t)
    /\ pc' = "once"
    /\ UNCHANGED <<FilterUnchanged, out2>>

\* f(f(blocks)): the inner call's exception, if any, is what the caller sees
Reapply ==
    /\ pc = "once"
    /\ out2' = IF out1.raised THEN out1 ELSE ApplyFilter(fname, fargs, out1.value)
    /\ pc' = "twice"
    /\ UNCHANGED <<FilterUnchanged, fname, fargs, out1>>

InitFilter ==
    /\ pc = "filter"
    /\ blocks \in BlockLists
    /\ fname = "" /\ fargs = <<>> /\ out1 = Unset /\ out2 = Unset
    /\ cell = Unset /\ index = 0 /\ outs = Unset /\ rendered = Unset
    /\ file = Unset /\ request = Unset /\ exc = NoExc /\ result = Unset

NextFilter == ApplyKeyword \/ ApplyIndex \/ ApplyHasError \/ Reapply

SpecFilter == InitFilter /\ [][NextFilter]_vars

(***************************************************************************)
(* Properties.                                                             *)
(***************************************************************************)
\* the lines of a text, split at "\n" only
LinesOf(text) == Split(text, <<NL>>)

\* the rendered block of the cell at 0-based position i
BlockAt(cells, i) == format_cell(cells[i + 1], i)

\* the rendered blocks of the cells at the 0-based positions in keep, in order
BlocksAt(cells, keep) ==
    LET pos == SelectSeq([k \in 1..Len(cells) |-> k - 1], LAMBDA i : i \in keep)
    IN  [k \in 1..Len(pos) |-> BlockAt(cells, pos[k])]

Positions(cells) == 0..(Len(cells) - 1)

InRange(i, start, end) ==
    /\ start.kind = "int" => i >= start.v
    /\ end.kind = "int" => i < end.v

HasErrorRecord(c) ==
    \E k \in 1..Len(c.outputs) : c.outputs[k].output_type = "error"

RECURSIVE IsSubsequence(_, _)
IsSubsequence(r, b) ==
    IF r = <<>> THEN TRUE
    ELSE IF b = <<>> THEN FALSE
    ELSE IF r[1] = b[1] THEN IsSubsequence(Tail(r), Tail(b))
    ELSE IsSubsequence(r, Tail(b))

\* keyword k occurs in text b at some offset, letters compared without case
OccursIgnoringCase(k, b) ==
    \E off \in 0..(Len(b) - Len(k)) :
        \A j \in 1..Len(k) : LowerChar(b[off + j]) = LowerChar(k[j])

\* C1: read_notebook never propagates an exception: whenever a step of the
\* pipeline raised, the call has returned the string "Error reading notebook: "
\* followed by the exception's message, which holds no block of the notebook;
\* a nonexistent path yields a string starting with that prefix.
C1_FailuresBecomeErrorText ==
    /\ exc.type # "" => pc \in {"except", "returned"}
    /\ (pc = "returned" /\ exc.type # "") =>
          /\ result = PyStr(ErrorPrefix \o exc.msg)
          /\ file.readable =>
                \A k \in 1..Len(file.cells) :
                    LET b == format_cell(file.cells[k], k - 1)
                    IN  b # <<>> => ~Contains(result.v, b)
    /\ (pc = "returned" /\ ~file.readable) =>
          /\ result.kind = "str"
          /\ StartsWith(result.v, ErrorPrefix)
          /\ result.v = ErrorPrefix \o file.exc.msg

C1_Witness ==
    /\ pc = "returned"
    /\ file.exc.type = "FileNotFoundError"
    /\ StartsWith(result.v, ErrorPrefix)

\* C2 (as claimed): after the index-range filter alone has run on the loader's
\* blocks, the blocks left are exactly those of the cells whose index i has
\* i >= start (when given) and i < end (when given).
C2_IndexRangeIsHalfOpen ==
    (/\ pc = "index_done"
     /\ ~Truthy(request.keywords)
     /\ request.start_cell.kind # "none" \/ request.end_cell.kind # "none")
    => blocks = BlocksAt(file.cells,
                         {i \in Positions(file.cells) :
                             /\ Strip(BlockAt(file.cells, i)) # <<>>
                             /\ InRange(i, request.start_cell, request.end_cell)})

\* C3 (as claimed): the first line of every non-empty rendered block is the
\* header [CELL <index> | MARKDOWN] or [CELL <index> | CODE]; a code block's
\* second line begins with [EXECUTION_COUNT] and its third with [HAS_ERROR].
C3_HeaderIsFirstLine ==
    (rendered.kind = "str" /\ rendered.v # <<>>) =>
        LET lines == LinesOf(rendered.v)
        IN  /\ cell.cell_type = "markdown" =>
                   lines[1] = CellOpen \o IntToStr(index) \o MarkdownClose
            /\ cell.cell_type = "code" =>
                   /\ lines[1] = CellOpen \o IntToStr(index) \o CodeClose
                   /\ StartsWith(lines[2], ExecCountTag)
                   /\ StartsWith(lines[3], HasErrorTag)

\* C4 (as claimed): after the error-presence filter alone has run on the
\* loader's blocks with target t, the blocks left are exactly those of the code
\* cells whose outputs' error flag equals t; no markdown block is left.
C4_ErrorFilterKeepsOnlyCodeCells ==
    (/\ pc = "error_done"
     /\ ~Truthy(request.keywords)
     /\ request.start_cell.kind = "none" /\ request.end_cell.kind = "none"
     /\ request.only_errors.kind # "none")
    => blocks = BlocksAt(file.cells,
                         {i \in Positions(file.cells) :
                             /\ file.cells[i + 1].cell_type = "code"
                             /\ HasErrorRecord(file.cells[i + 1])
                                    = request.only_errors.v})

\* C5 (as claimed): the loader returns, in cell order, the blocks of the code
\* cells and of the markdown cells whose source is not blank; a markdown cell
\* with a blank source and a cell of another type contribute no block.
C5_BlankMarkdownDropped ==
    pc = "loaded" =>
        blocks = BlocksAt(file.cells,
                          {i \in Positions(file.cells) :
                              LET c == file.cells[i + 1]
                              IN  \/ c.cell_type = "code"
                                  \/ /\ c.cell_type = "markdown"
                                     /\ Strip(normalize_text(c.source)) # <<>>})

\* C5 (amended): the loader returns, in cell order, exactly one block per
\* markdown or code cell, a markdown cell with a blank source included (its
\* block is the header alone); only a cell of another type contributes no block.
C5_OneBlockPerKnownCell ==
    pc = "loaded" =>
        /\ blocks = BlocksAt(file.cells,
                             {i \in Positions(file.cells) :
                                 file.cells[i + 1].cell_type \in {"markdown", "code"}})
        /\ \A k \in 1..Len(blocks) : Strip(blocks[k]) # <<>>

C5_Witness ==
    /\ pc = "loaded"
    /\ \E k \in 1..Len(file.cells) :
          /\ file.cells[k].cell_type = "markdown"
          /\ Strip(normalize_text(file.cells[k].source)) = <<>>
    /\ \E k \in 1..Len(file.cells) : file.cells[k].cell_type = "raw"
    /\ Len(blocks) = Len(file.cells) - 1

\* C6: when no step raised, read_notebook returns the sentinel "No matching
\* cells found with the specified filters." if and only if no block is left
\* after the requested filters, and otherwise the blocks left joined by "\n".
C6_SentinelIffNoBlocks ==
    (pc = "returned" /\ exc.type = "") =>
        /\ result.kind = "str"
        /\ (result.v = NoMatchMessage) <=> (blocks = <<>>)
        /\ blocks # <<>> =>
              /\ Len(result.v) = Len(ConcatAll(blocks)) + Len(blocks) - 1
              /\ StartsWith(result.v, blocks[1])
              /\ LET rest(k) == IF k = 1 THEN result.v
                                ELSE From(result.v,
                                          Len(ConcatAll(SubSeq(blocks, 1, k - 1))) + k)
                 IN  \A k \in 1..Len(blocks) :
                        /\ StartsWith(rest(k), blocks[k])
                        /\ k > 1 => result.v[Len(result.v) - Len(rest(k))] = NL

C6_Witness ==
    /\ pc = "returned"
    /\ exc.type = ""
    /\ file.readable /\ file.cells # <<>>
    /\ request.only_errors.kind # "none"
    /\ blocks = <<>>
    /\ result.v = NoMatchMessage

\* C7: filter_by_keyword, given one keyword or a list of keywords, keeps a
\* block if and only if some keyword occurs in the block's text, letters
\* compared without case.
C7_KeywordMatchIgnoresCase ==
    (/\ pc \in {"once", "twice"}
     /\ fname = "filter_by_keyword"
     /\ ~out1.raised)
    => LET kws == IF fargs[1].kind = "str" THEN <<fargs[1]>> ELSE fargs[1].v
       IN  out1.value =
               SelectSeq(blocks,
                         LAMBDA b : \E k \in 1..Len(kws) :
                                        /\ kws[k].kind = "str"
                                        /\ OccursIgnoringCase(kws[k].v, b))

C7_Witness ==
    /\ pc = "once"
    /\ fname = "filter_by_keyword"
    /\ fargs = <<PyStr(KwRmse)>>
    /\ ~out1.raised
    /\ Len(out1.value) = 1
    /\ Len(blocks) = 2
    /\ Contains(out1.value[1], TxtRmse)

\* C8: a filter that returns leaves its input list as it was and returns a
\* subsequence of it: blocks of the input, in the input's order, none more
\* often than in the input.
C8_FilterReturnsSubsequence ==
    [][(pc = "filter" /\ pc' = "once") =>
          /\ blocks' = blocks
          /\ ~out1'.raised => IsSubsequence(out1'.value, blocks)]_vars

C8_Witness ==
    /\ pc = "once"
    /\ fname = "filter_by_cell_index"
    /\ ~out1.raised
    /\ Len(blocks) = 2
    /\ blocks[1] # blocks[2]
    /\ out1.value = blocks

\* C9: applying a filter to its own result, with the same arguments, gives
\* the same result as applying it once.
C9_FiltersAreIdempotent ==
    pc = "twice" => out2 = out1

C9_Witness ==
    /\ pc = "twice"
    /\ fname = "filter_by_cell_index"
    /\ fargs[1].kind = "int"
    /\ ~out1.raised
    /\ Len(blocks) = 2
    /\ out1.value = <<blocks[2]>>
    /\ out2 = out1

\* "ERROR:\nValueError: bad\nline1\nline2"
ErrorExampleText ==
    <<"E", "R", "R", "O", "R", ":", "\n", "V", "a", "l", "u", "e", "E", "r",
      "r", "o", "r", ":", " ", "b", "a", "d", "\n", "l", "i", "n", "e", "1", "\n", "l", "i", "n", "e", "2">>

\* C10: format_outputs sets has_error exactly when some record is an error
\* record; records of an unrecognized type change nothing; the error records
\* contribute, in order, the lines ERROR:, <ename>: <evalue> and their
\* traceback lines, so one ValueError/bad/[line1, line2] record renders as
\* "ERROR:\nValueError: bad\nline1\nline2".
C10_ErrorRecordsRendered ==
    outs.kind = "outputs" =>
        LET os      == cell.outputs
            known   == SelectSeq(os, LAMBDA o : o.output_type \in
                           {"stream", "execute_result", "display_data", "error"})
            errors  == SelectSeq(os, LAMBDA o : o.output_type = "error")
            erlines == ConcatAll([k \in 1..Len(errors) |->
                           <<ErrorLine,
                             errors[k].ename \o <<":", " ">> \o errors[k].evalue>>
                           \o errors[k].traceback])
        IN  /\ outs.v.has_error <=> errors # <<>>
            /\ outs.v = format_outputs(known)
            /\ (\A k \in 1..Len(os) :
                   os[k].output_type \in {"error", "future_output"})
                  => outs.v.text = Join(<<NL>>, erlines)
            /\ os = <<ErrorOut>> => outs.v.text = ErrorExampleText

C10_Witness ==
    /\ outs.kind = "outputs"
    /\ cell.outputs = <<UnknownOut, ErrorOut>>
    /\ outs.v.has_error
    /\ outs.v.text # <<>>

====
